---- MODULE Spec2Model ----
(***************************************************************************)
(* Model of aklein4/stable-hypergrad:                                      *)
(*   - utils/training_utils.py : loss, ppl, acc, pcorr (token metrics)     *)
(*   - models/ball.py          : ball_forward, BallLmModel.post_init       *)
(*   - trainers/xla_pbit_trainer.py : XLAPBitTrainer.train_step            *)
(*                                                                         *)
(* Tensors are sequences (1-indexed); a vocabulary id v is column v+1.     *)
(* Log-probabilities are integers (nats).  Real results are exact          *)
(* rationals [k |-> "num", n, d]; torch's float NaN and +-inf are the      *)
(* values [k |-> "nan"] and [k |-> "inf", s]; a Python exception is        *)
(* [k |-> "raise", exc].  A value built from exp() is kept as the formal   *)
(* average (sum_i e^(exps[i])) / den; two such averages of rational        *)
(* exponents are equal as reals iff they agree term by term                *)
(* (Lindemann-Weierstrass), which is what ExpAvgEq computes.               *)
(* Tensor semantics are PyTorch's eager (strided) semantics.               *)
(***************************************************************************)
EXTENDS Integers, Sequences, FiniteSets

VARIABLES
    logits, x, shift, fn, result,                 \* a metrics call and its outcome
    modules, XLA_AVAILABLE, post_inits, fwd,      \* a BallLmModel's module tree
    step, w_density, density_ramp_steps, results  \* an XLAPBitTrainer

vars == <<logits, x, shift, fn, result, modules, XLA_AVAILABLE, post_inits, fwd,
          step, w_density, density_ramp_steps, results>>

metricVars == <<logits, x, shift, fn, result>>
ballVars == <<modules, XLA_AVAILABLE, post_inits, fwd>>
trainerVars == <<step, w_density, density_ramp_steps, results>>

-----------------------------------------------------------------------------
(* Bounds of the model *)

\* batch sizes 1..MaxB
MaxB == 2
\* sequence lengths 1..MaxT
MaxT == 3
\* sequence lengths 1..MisuseT of the calls that break the input contract
MisuseT == 2
\* vocabulary ids 0..VocabSize-1
VocabSize == 2
\* raw weight rows are k * <<3, 4>>, k in 0..MaxScale
MaxScale == 4
\* positive constants 1..MaxC a raw weight is multiplied by
MaxC == 3
\* modules in the module tree
NumModules == 2
\* post_init is run at most MaxPostInit times
MaxPostInit == 2
\* trainer steps 0..MaxStep
MaxStep == 5
\* configured w_density in -1..MaxW
MaxW == 2
\* configured density_ramp_steps in 0..MaxRamp
MaxRamp == 3
\* lm_loss and density are in 0..MaxTerm
MaxTerm == 2

(* Program constants *)

\* default of the ignore_index parameter
IgnoreIndexDefault == -1
\* eps of F.normalize (1e-12), in the unit of the weight entries (1e-13)
NormalizeEps == 10

-----------------------------------------------------------------------------
(* Exact arithmetic *)

Abs(a) == IF a < 0 THEN -a ELSE a

RECURSIVE Gcd(_, _)
Gcd(a, b) == IF b = 0 THEN a ELSE Gcd(b, a % b)

NaN == [k |-> "nan"]
Inf(s) == [k |-> "inf", s |-> s]
Raise(exc) == [k |-> "raise", exc |-> exc]

\* the rational n/d in lowest terms, d > 0
Num(n, d) ==
    LET g == Gcd(Abs(n), Abs(d))
        s == IF d < 0 THEN -1 ELSE 1
    IN [k |-> "num", n |-> (s * n) \div g, d |-> (s * d) \div g]

IsNum(v) == v.k = "num"

RatEq(a, b) == IsNum(a) /\ IsNum(b) /\ a.n * b.d = b.n * a.d
RatLeq(a, b) == IsNum(a) /\ IsNum(b) /\ a.n * b.d <= b.n * a.d

RatNeg(a) == IF IsNum(a) THEN Num(-a.n, a.d) ELSE a
RatAdd(a, b) == Num(a.n * b.d + b.n * a.d, a.d * b.d)
RatMul(a, b) == Num(a.n * b.n, a.d * b.d)

\* torch float division: x/0 is +-inf, 0/0 is nan, nan propagates
Div(a, b) ==
    IF ~IsNum(a) \/ ~IsNum(b) THEN NaN
    ELSE IF b.n = 0 THEN (IF a.n = 0 THEN NaN ELSE Inf(IF a.n > 0 THEN 1 ELSE -1))
    ELSE Num(a.n * b.d, a.d * b.n)

RECURSIVE Sum(_)
Sum(s) == IF Len(s) = 0 THEN 0 ELSE s[1] + Sum(Tail(s))

\* Tensor.mean(): nan on an empty tensor
Mean(s) == IF Len(s) = 0 THEN NaN ELSE Num(Sum(s), Len(s))

\* (sum_i e^(exps[i])) / den, exps a sequence of rationals
ExpAvg(exps, den) == [k |-> "expavg", exps |-> exps, den |-> den]

CountOf(exps, r) == Cardinality({i \in 1..Len(exps) : RatEq(exps[i], r)})

ExpAvgEq(a, b) ==
    /\ a.k = "expavg" /\ b.k = "expavg"
    /\ \A i \in 1..Len(a.exps) :
          CountOf(a.exps, a.exps[i]) * b.den = CountOf(b.exps, a.exps[i]) * a.den
    /\ \A i \in 1..Len(b.exps) :
          CountOf(a.exps, b.exps[i]) * b.den = CountOf(b.exps, b.exps[i]) * a.den

-----------------------------------------------------------------------------
(* utils/training_utils.py *)

Vocab == 0..(VocabSize - 1)

\* t[:, 1:]
ShiftX(t) == [b \in 1..Len(t) |-> Tail(t[b])]
\* t[:, :-1]
ShiftLogits(t) == [b \in 1..Len(t) |-> SubSeq(t[b], 1, Len(t[b]) - 1)]

\* Tensor.view(-1) / view(-1, V) of a [B, T', ...] tensor: the slice of a shifted
\* tensor is not contiguous, and its first two axes can be merged only when one
\* of them has at most one element
ViewOk(t, sliced) == ~sliced \/ Len(t) <= 1 \/ Len(t[1]) <= 1

RECURSIVE Flatten(_)
Flatten(t) == IF Len(t) = 0 THEN <<>> ELSE t[1] \o Flatten(Tail(t))

\* advanced indexing rows[ar, ids] with ar = arange(len(ids)): every row index and
\* every column index must be in range, a negative column index counts from the end
GatherOk(rows, ids) ==
    /\ Len(ids) <= Len(rows)
    /\ \A i \in 1..Len(ids) : ids[i] >= -Len(rows[i]) /\ ids[i] < Len(rows[i])

Gather(rows, ids) ==
    [i \in 1..Len(ids) |->
        rows[i][(IF ids[i] < 0 THEN ids[i] + Len(rows[i]) ELSE ids[i]) + 1]]

\* x == ignore_index
PadMask(ids, ignore_index) == [i \in 1..Len(ids) |-> ids[i] = ignore_index]

\* (~mask).float()
NotMask(mask) == [i \in 1..Len(mask) |-> IF mask[i] THEN 0 ELSE 1]

\* torch.masked_fill(v, mask, 0.0)
MaskedFill(v, mask) == [i \in 1..Len(v) |-> IF mask[i] THEN 0 ELSE v[i]]

loss(lg, xs, ignore_index, sh) ==
    LET x1 == IF sh THEN ShiftX(xs) ELSE xs
        l1 == IF sh THEN ShiftLogits(lg) ELSE lg
    IN IF ~ViewOk(x1, sh) \/ ~ViewOk(l1, sh) THEN Raise("RuntimeError")
       ELSE LET xf == Flatten(x1)
                lf == Flatten(l1)
            IN IF ~GatherOk(lf, xf) THEN Raise("IndexError")
               ELSE LET g == Gather(lf, xf)
                        mask == PadMask(xf, ignore_index)
                        l == MaskedFill([i \in 1..Len(g) |-> -g[i]], mask)
                    IN Div(Mean(l), Mean(NotMask(mask)))

ppl(lg, xs, ignore_index, sh) ==
    LET x1 == IF sh THEN ShiftX(xs) ELSE xs
        l1 == IF sh THEN ShiftLogits(lg) ELSE lg
    IN IF ~ViewOk(x1, sh) \/ ~ViewOk(l1, sh) THEN Raise("RuntimeError")
       ELSE LET xf == Flatten(x1)
                lf == Flatten(l1)
            IN IF ~GatherOk(lf, xf) THEN Raise("IndexError")
               ELSE LET mask == PadMask(xf, ignore_index)
                        logp == MaskedFill(Gather(lf, xf), mask)
                        \* the tensors are flat: sum(-1) is over the whole batch
                        logp_seq == Div(Num(Sum(logp), 1), Num(Sum(NotMask(mask)), 1))
                    IN IF IsNum(logp_seq) THEN ExpAvg(<<RatNeg(logp_seq)>>, 1) ELSE NaN

\* logits.argmax(-1): the first maximal column
ArgMax(row) ==
    CHOOSE v \in 0..(Len(row) - 1) :
        /\ \A u \in 0..(Len(row) - 1) : row[u + 1] <= row[v + 1]
        /\ \A u \in 0..(v - 1) : row[u + 1] < row[v + 1]

\* whether a [b1, t1] tensor and a [b2, t2] tensor broadcast together
Broadcastable(a, b) ==
    LET b1 == Len(a)
        b2 == Len(b)
        t1 == Len(a[1])
        t2 == Len(b[1])
    IN (b1 = b2 \/ b1 = 1 \/ b2 = 1) /\ (t1 = t2 \/ t1 = 1 \/ t2 = 1)

\* acc reads its local `mask` (line 108) before line 111 assigns it
acc(lg, xs, ignore_index, sh) ==
    LET x1 == IF sh THEN ShiftX(xs) ELSE xs
        l1 == IF sh THEN ShiftLogits(lg) ELSE lg
    IN IF ~Broadcastable(l1, x1) THEN Raise("RuntimeError")
       ELSE Raise("UnboundLocalError")

pcorr(lg, xs, ignore_index, sh) ==
    LET x1 == IF sh THEN ShiftX(xs) ELSE xs
        l1 == IF sh THEN ShiftLogits(lg) ELSE lg
    IN IF ~ViewOk(x1, sh) \/ ~ViewOk(l1, sh) THEN Raise("RuntimeError")
       ELSE LET xf == Flatten(x1)
                lf == Flatten(l1)
            IN IF ~GatherOk(lf, xf) THEN Raise("IndexError")
               ELSE LET g == Gather(lf, xf)
                        mask == PadMask(xf, ignore_index)
                        count == Sum(NotMask(mask))
                        RECURSIVE Terms(_)
                        Terms(i) == IF i > Len(g) THEN <<>>
                                    ELSE (IF mask[i] THEN <<>> ELSE <<Num(g[i], 1)>>)
                                         \o Terms(i + 1)
                    IN IF count = 0 THEN NaN ELSE ExpAvg(Terms(1), count)

(* A metrics call: the arguments the caller built, then one of the four functions *)

\* a row of log-probabilities that puts 0 on one id and -1 on the others
LogitRows == {[c \in 1..VocabSize |-> IF c = p + 1 THEN 0 ELSE -1] : p \in Vocab}

LogitTensors(B, T) == [1..B -> [1..T -> LogitRows]]

\* targets that keep the input contract: a vocabulary id or the padding sentinel
TargetTensors(B, T) == [1..B -> [1..T -> Vocab \cup {IgnoreIndexDefault}]]

\* any id a caller may pass, in range or not
AnyIds == (-(VocabSize + 1))..VocabSize

Idle == [k |-> "none"]

BallIdle ==
    /\ modules = <<>>
    /\ XLA_AVAILABLE = FALSE
    /\ post_inits = 0
    /\ fwd = Idle

TrainerIdle ==
    /\ step = 0
    /\ w_density = 0
    /\ density_ramp_steps = 1
    /\ results = Idle

MetricsIdle ==
    /\ logits = <<>>
    /\ x = <<>>
    /\ shift = FALSE
    /\ fn = "none"
    /\ result = Idle

\* calls that keep the input contract of loss/ppl/acc/pcorr
InitContract ==
    /\ \E B \in 1..MaxB, T \in 1..MaxT :
          /\ logits \in LogitTensors(B, T)
          /\ x \in TargetTensors(B, T)
    /\ shift \in BOOLEAN
    /\ fn = "none"
    /\ result = Idle

\* calls with any shapes and any ids
InitMisuse ==
    /\ \E B1 \in 1..MaxB, T1 \in 1..MisuseT, B2 \in 1..MaxB, T2 \in 1..MisuseT :
          /\ logits \in LogitTensors(B1, T1)
          /\ x \in [1..B2 -> [1..T2 -> AnyIds]]
    /\ shift \in BOOLEAN
    /\ fn = "none"
    /\ result = Idle

InitMetrics == (InitContract \/ InitMisuse) /\ BallIdle /\ TrainerIdle

CallLoss ==
    /\ fn = "none"
    /\ fn' = "loss"
    /\ result' = loss(logits, x, IgnoreIndexDefault, shift)
    /\ UNCHANGED <<logits, x, shift, ballVars, trainerVars>>

CallPpl ==
    /\ fn = "none"
    /\ fn' = "ppl"
    /\ result' = ppl(logits, x, IgnoreIndexDefault, shift)
    /\ UNCHANGED <<logits, x, shift, ballVars, trainerVars>>

CallAcc ==
    /\ fn = "none"
    /\ fn' = "acc"
    /\ result' = acc(logits, x, IgnoreIndexDefault, shift)
    /\ UNCHANGED <<logits, x, shift, ballVars, trainerVars>>

CallPcorr ==
    /\ fn = "none"
    /\ fn' = "pcorr"
    /\ result' = pcorr(logits, x, IgnoreIndexDefault, shift)
    /\ UNCHANGED <<logits, x, shift, ballVars, trainerVars>>

NextMetrics == CallLoss \/ CallPpl \/ CallAcc \/ CallPcorr

SpecMetrics == InitMetrics /\ [][NextMetrics]_vars

-----------------------------------------------------------------------------
(* Reference values of the metrics, computed position by position from the    *)
(* [B, T, V] and [B, T] arguments, without flattening                          *)

Off == IF shift THEN 1 ELSE 0

SameShape ==
    /\ Len(logits) = Len(x)
    /\ \A b \in 1..Len(x) : Len(logits[b]) = Len(x[b])

\* the target positions <<b, t>> that survive the optional shift
TargetPos == {<<b, t>> \in (1..Len(x)) \X (1..MaxT) : t + Off <= Len(x[b])}

Tgt(p) == x[p[1]][p[2] + Off]

InContract ==
    /\ SameShape
    /\ \A b \in 1..Len(x) : \A t \in 1..Len(x[b]) :
          x[b][t] \in Vocab \cup {IgnoreIndexDefault}

NonPad == {p \in TargetPos : Tgt(p) # IgnoreIndexDefault}

NonPadOf(b) == {p \in NonPad : p[1] = b}

NegLogp(p) == -logits[p[1]][p[2]][Tgt(p) + 1]

RECURSIVE NegLogpSum(_)
NegLogpSum(S) ==
    IF S = {} THEN 0
    ELSE LET p == CHOOSE q \in S : TRUE IN NegLogp(p) + NegLogpSum(S \ {p})

Matches == {p \in NonPad : ArgMax(logits[p[1]][p[2]]) = Tgt(p)}

PerSequencePpl ==
    ExpAvg([b \in 1..Len(x) |-> Num(NegLogpSum(NonPadOf(b)), Cardinality(NonPadOf(b)))],
           Len(x))

IsMetricOfGather == fn \in {"loss", "ppl", "pcorr"}

\* C1: on arguments that keep the input contract and hold a non-padding target,
\* loss returns the sum of -logp[b,t,target] over the non-padding positions
\* divided by their number in the whole batch
C1_LossIsFlatMaskedMean ==
    (fn = "loss" /\ InContract /\ NonPad # {})
        => RatEq(result, Num(NegLogpSum(NonPad), Cardinality(NonPad)))

\* the value loss returns, whenever it does return one, is that flat masked mean
LossValueWhenReturned ==
    (fn = "loss" /\ InContract /\ NonPad # {} /\ result.k # "raise")
        => RatEq(result, Num(NegLogpSum(NonPad), Cardinality(NonPad)))

\* C2: on arguments that keep the input contract and hold a non-padding target,
\* acc returns a value in [0,1], the fraction of non-padding positions whose
\* argmax is the target
C2_AccIsMatchFraction ==
    (fn = "acc" /\ InContract /\ NonPad # {})
        => /\ IsNum(result)
           /\ RatLeq(Num(0, 1), result) /\ RatLeq(result, Num(1, 1))
           /\ RatEq(result, Num(Cardinality(Matches), Cardinality(NonPad)))

\* C3: when ppl returns, it is the average over the sequences of the exponential
\* of each sequence's own mean negative log-probability, and so differs from
\* exp(loss) when the sequences' counts and means differ
C3_PplIsPerSequence ==
    (/\ fn = "ppl" /\ InContract /\ result.k # "raise"
     /\ \A b \in 1..Len(x) : NonPadOf(b) # {})
        => /\ ExpAvgEq(result, PerSequencePpl)
           /\ (\E b, c \in 1..Len(x) :
                  /\ Cardinality(NonPadOf(b)) # Cardinality(NonPadOf(c))
                  /\ ~RatEq(PerSequencePpl.exps[b], PerSequencePpl.exps[c]))
                 => ~ExpAvgEq(result,
                        ExpAvg(<<Num(NegLogpSum(NonPad), Cardinality(NonPad))>>, 1))

\* C4: on an all-padding batch loss, ppl and pcorr return a defined value or raise;
\* none of them returns NaN
C4_NoNaNOnAllPadding ==
    (/\ IsMetricOfGather /\ SameShape /\ TargetPos # {}
     /\ \A p \in TargetPos : Tgt(p) = IgnoreIndexDefault)
        => result.k # "nan"

\* C8: a call of loss, ppl or pcorr with a surviving target id outside [0, V) that
\* is not ignore_index raises IndexError
C8_OutOfRangeIdRaises ==
    (/\ IsMetricOfGather /\ SameShape
     /\ \E p \in TargetPos : Tgt(p) \notin Vocab \cup {IgnoreIndexDefault})
        => result = Raise("IndexError")

\* C9: a call of loss, ppl, acc or pcorr whose logp and targets disagree on the
\* batch or time axis raises; it never returns a value
C9_ShapeMismatchRaises ==
    (/\ fn # "none" /\ ~SameShape /\ TargetPos # {}
     /\ \A p \in TargetPos : Tgt(p) \in Vocab)
        => result.k = "raise"

-----------------------------------------------------------------------------
(* models/ball.py *)

\* A module of the tree: kind is its class, no_sim_score whether it has the
\* attribute, weight its raw parameter (a sequence of rows, entries in units of
\* 1e-13), bias a row or <<>> for None, forward the function bound as m.forward
\* ("default" is the class's own), sim_score the attribute post_init assigns.
\* Rows have an integer L2 norm, so that normalisation is exact.

Row(k) == <<3 * k, 4 * k>>

Weights == {<<Row(k), Row(MaxScale - k)>> : k \in 0..(MaxScale \div 2)}

\* the values of a bias that is not None
Biases == {<<1, 1>>}

LinearModules ==
    [kind : {"Linear"}, no_sim_score : BOOLEAN, weight : Weights,
     bias : {<<>>} \cup Biases, forward : {"default"}, sim_score : {"unset"}]

LayerNormModules ==
    [kind : {"LayerNorm"}, no_sim_score : {FALSE}, weight : {<<Row(MaxScale)>>},
     bias : Biases, forward : {"default"}, sim_score : {"unset"}]

OtherModules ==
    [kind : {"Other"}, no_sim_score : {FALSE}, weight : {<<>>},
     bias : {<<>>}, forward : {"default"}, sim_score : {"unset"}]

Inputs == {<<1, 1>>, <<2, -1>>}

RECURSIVE SqrtFrom(_, _)
SqrtFrom(n, r) == IF r * r >= n THEN r ELSE SqrtFrom(n, r + 1)

Max(a, b) == IF a >= b THEN a ELSE b

RECURSIVE MaxAbs(_)
MaxAbs(row) == IF Len(row) = 0 THEN 0 ELSE Max(Abs(row[1]), MaxAbs(Tail(row)))

\* the L2 norm of a row: the root of the sum of squares, searched upwards from
\* the largest entry
Norm(row) == SqrtFrom(Sum([j \in 1..Len(row) |-> row[j] * row[j]]), MaxAbs(row))

\* normalize with the L1 norm in place of the L2 norm (p=1)
normalize_p1(w) ==
    [r \in 1..Len(w) |->
        [j \in 1..Len(w[r]) |->
            Num(w[r][j], Max(Sum([c \in 1..Len(w[r]) |-> Abs(w[r][c])]), NormalizeEps))]]

\* F.normalize(w, p=2, dim=-1): each row divided by max(its norm, eps)
normalize(w) ==
    [r \in 1..Len(w) |->
        [j \in 1..Len(w[r]) |-> Num(w[r][j], Max(Norm(w[r]), NormalizeEps))]]

RECURSIVE RatSum(_)
RatSum(s) == IF Len(s) = 0 THEN Num(0, 1) ELSE RatAdd(s[1], RatSum(Tail(s)))

\* F.linear(xin, w, bias) for one input row: xin times w transposed, plus bias
linear(xin, w, bias) ==
    [r \in 1..Len(w) |->
        RatAdd(RatSum([j \in 1..Len(xin) |-> RatMul(Num(xin[j], 1), w[r][j])]),
               IF bias = <<>> THEN Num(0, 1) ELSE Num(bias[r], 1))]

AsRat(w) == [r \in 1..Len(w) |-> [j \in 1..Len(w[r]) |-> Num(w[r][j], 1)]]

ball_forward(m, xin) == linear(xin, normalize(m.weight), <<>>)

\* nn.Linear.forward, and torch_xla's patched linear forward, which computes the same
linear_forward(m, xin) == linear(xin, AsRat(m.weight), m.bias)

\* PatchLinear without the no_sim_score opt-out
PatchLinearNoOptOut(m, xla) ==
    IF m.kind # "Linear" THEN m
    ELSE [m EXCEPT !.forward = "ball_forward", !.sim_score = "None"]

\* the first loop of post_init, for one module
PatchLinear(m, xla) ==
    IF m.kind # "Linear" THEN m
    ELSE IF m.no_sim_score
         THEN (IF xla THEN [m EXCEPT !.forward = "_xla_patched_nn_linear_forward"] ELSE m)
         ELSE [m EXCEPT !.forward = "ball_forward", !.sim_score = "None"]

\* the second loop of post_init, for one module
PatchLayerNorm(m) ==
    IF m.kind # "LayerNorm" THEN m ELSE [m EXCEPT !.forward = "layer_forward"]

\* the weights an initialiser gives: no row of them is all zero
InitWeights == {w \in Weights : \A r \in 1..Len(w) : Norm(w[r]) > 0}

\* What a run of the transformers library's PreTrainedModel.post_init does to the
\* parameters: <<>> when init_weights skips every module (weight initialisation
\* switched off, or every module already marked initialised), otherwise the weight
\* it gives each module and the value it gives every bias.
InitDraws ==
    {<<>>} \cup [weight : [1..NumModules -> InitWeights], bias : Biases]

\* PreTrainedModel.post_init(self): init_weights writes the raw weight of each
\* Linear and the bias of each module that has one; a bias of None stays None and
\* no forward is bound.  The values are those of the library's initialiser, so they
\* are a choice `draw`.
PreTrainedModel_post_init(mods, draw) ==
    IF draw = <<>> THEN mods
    ELSE [i \in 1..Len(mods) |->
            LET m == mods[i]
                b == IF m.bias = <<>> THEN <<>> ELSE draw.bias
            IN IF m.kind = "Linear"
               THEN [m EXCEPT !.weight = draw.weight[i], !.bias = b]
               ELSE IF m.kind = "LayerNorm" THEN [m EXCEPT !.bias = b]
               ELSE m]

\* post_init that wraps the forward it finds instead of replacing it
post_init_wrapping(mods, xla, draw) ==
    LET inited == PreTrainedModel_post_init(mods, draw)
    IN [i \in 1..Len(inited) |->
           IF inited[i].forward = "ball_forward"
           THEN [inited[i] EXCEPT !.forward = "ball_forward(ball_forward)"]
           ELSE PatchLayerNorm(PatchLinear(inited[i], xla))]

\* BallLmModel.post_init over the module tree: the library's post_init first, then
\* the two patch loops over self.modules()
post_init(mods, xla, draw) ==
    LET inited == PreTrainedModel_post_init(mods, draw)
    IN [i \in 1..Len(inited) |-> PatchLayerNorm(PatchLinear(inited[i], xla))]

RawParams(mods) == [i \in 1..Len(mods) |-> <<mods[i].weight, mods[i].bias>>]

InitBall ==
    /\ modules \in [1..NumModules -> LinearModules \cup LayerNormModules \cup OtherModules]
    /\ XLA_AVAILABLE \in BOOLEAN
    /\ post_inits = 0
    /\ fwd = Idle
    /\ MetricsIdle
    /\ TrainerIdle

\* fwd is the last forward call made with the present parameters: a run that
\* rewrites a parameter leaves no such call
PostInit ==
    /\ post_inits < MaxPostInit
    /\ \E draw \in InitDraws : modules' = post_init(modules, XLA_AVAILABLE, draw)
    /\ post_inits' = post_inits + 1
    /\ fwd' = IF RawParams(modules') = RawParams(modules) THEN fwd ELSE Idle
    /\ UNCHANGED <<XLA_AVAILABLE, metricVars, trainerVars>>

\* m.forward(xin) of a Linear module, once the model is constructed
Forward(i, xin) ==
    /\ post_inits >= 1
    /\ modules[i].kind = "Linear"
    /\ fwd' = [k |-> "call", m |-> i, x |-> xin,
               out |-> IF modules[i].forward = "ball_forward"
                       THEN ball_forward(modules[i], xin)
                       ELSE linear_forward(modules[i], xin)]
    /\ UNCHANGED <<modules, XLA_AVAILABLE, post_inits, metricVars, trainerVars>>

NextBall ==
    \/ PostInit
    \/ \E i \in 1..NumModules, xin \in Inputs : Forward(i, xin)

SpecBall == InitBall /\ [][NextBall]_vars

(* Properties of the sphere reparameterization *)

Dot(a, b) == Sum([j \in 1..Len(a) |-> a[j] * b[j]])

\* the squared L2 norm of the row normalize gives for `row`
EffNormSq(row) ==
    LET e == normalize(<<row>>)[1]
    IN RatSum([j \in 1..Len(e) |-> RatMul(e[j], e[j])])

Scaled(m, c) ==
    [m EXCEPT !.weight = [r \in 1..Len(m.weight) |->
                             [j \in 1..Len(m.weight[r]) |-> c * m.weight[r][j]]]]

IsBall(m) == m.kind = "Linear" /\ ~m.no_sim_score

\* C5: after post_init a Linear without no_sim_score has ball_forward as forward
\* (input times the row-normalized weight, no bias), a Linear with no_sim_score has
\* the XLA patched forward when XLA is available and its own forward otherwise, a
\* LayerNorm has layer_forward, and any other module keeps its forward
C5_PostInitPatches ==
    post_inits >= 1 =>
        /\ \A i \in 1..Len(modules) :
              LET m == modules[i]
              IN m.forward =
                   IF m.kind = "Linear"
                   THEN (IF ~m.no_sim_score THEN "ball_forward"
                         ELSE IF XLA_AVAILABLE THEN "_xla_patched_nn_linear_forward"
                         ELSE "default")
                   ELSE IF m.kind = "LayerNorm" THEN "layer_forward"
                   ELSE "default"
        /\ (fwd.k = "call" /\ IsBall(modules[fwd.m])) =>
              \A r \in 1..Len(fwd.out) :
                  LET w == modules[fwd.m].weight[r]
                  IN RatEq(fwd.out[r], Num(Dot(fwd.x, w), Max(Norm(w), NormalizeEps)))

C5_Witness ==
    /\ post_inits >= 1
    /\ fwd.k = "call"
    /\ IsBall(modules[fwd.m])
    /\ modules[fwd.m].bias # <<>>
    /\ Norm(modules[fwd.m].weight[1]) >= NormalizeEps
    /\ \E i \in 1..Len(modules) : modules[i].kind = "Linear" /\ modules[i].no_sim_score

\* C6 as stated: for every raw weight, all-zero and very small rows included, each
\* row of the effective weight of ball_forward has L2 norm 1, and multiplying the
\* raw weight by a positive constant leaves the output unchanged
C6_EveryRowHasUnitNorm ==
    \A i \in 1..Len(modules) :
        (post_inits >= 1 /\ IsBall(modules[i])) =>
            /\ \A r \in 1..Len(modules[i].weight) :
                  RatEq(EffNormSq(modules[i].weight[r]), Num(1, 1))
            /\ (fwd.k = "call" /\ fwd.m = i) =>
                  \A c \in 1..MaxC : \A r \in 1..Len(modules[i].weight) :
                      RatEq(ball_forward(Scaled(modules[i], c), fwd.x)[r], fwd.out[r])

\* C6 amended: a row whose L2 norm is at least eps has an effective row of norm 1,
\* and its output is unchanged when the raw weight is multiplied by a positive
\* constant that keeps the norm at least eps; a row of smaller norm is divided by
\* eps, so its effective norm is below 1 (0 for an all-zero row)
C6_UnitNormFromEps ==
    \A i \in 1..Len(modules) :
        (post_inits >= 1 /\ IsBall(modules[i])) =>
            \A r \in 1..Len(modules[i].weight) :
                LET w == modules[i].weight[r]
                IN /\ Norm(w) >= NormalizeEps =>
                        /\ RatEq(EffNormSq(w), Num(1, 1))
                        /\ (fwd.k = "call" /\ fwd.m = i) =>
                              \A c \in 1..MaxC :
                                  RatEq(ball_forward(Scaled(modules[i], c), fwd.x)[r],
                                        fwd.out[r])
                   /\ Norm(w) < NormalizeEps =>
                        /\ ~RatEq(EffNormSq(w), Num(1, 1))
                        /\ RatLeq(EffNormSq(w), Num(1, 1))
                        /\ (Norm(w) = 0 => RatEq(EffNormSq(w), Num(0, 1)))

C6_Witness ==
    /\ fwd.k = "call"
    /\ IsBall(modules[fwd.m])
    /\ Norm(modules[fwd.m].weight[1]) \in 1..(NormalizeEps - 1)
    /\ Norm(modules[fwd.m].weight[2]) > NormalizeEps
    /\ fwd.out[2].n # 0

\* what post_init binds or assigns on each module, its parameters left aside
Bindings(mods) ==
    [i \in 1..Len(mods) |->
        [kind |-> mods[i].kind, no_sim_score |-> mods[i].no_sim_score,
         forward |-> mods[i].forward, sim_score |-> mods[i].sim_score]]

-----------------------------------------------------------------------------
(* trainers/xla_pbit_trainer.py *)

\* XLALmTrainer.train_step: the results it returns carry the language-model loss
XLALmTrainer_train_step(lm) == [k |-> "results", lm_loss |-> Num(lm, 1)]

RatMin(a, b) == IF RatLeq(a, b) THEN a ELSE b

\* train_step with floor division (step // density_ramp_steps) in the ramp
train_step_floordiv(s, w, ramp, lm, dens) ==
    LET r0 == XLALmTrainer_train_step(lm)
    IN IF ramp = 0 THEN Raise("ZeroDivisionError")
       ELSE LET wd == RatMul(Num(w, 1), RatMin(Num(1, 1), Num(s \div ramp, 1)))
                dl == RatMul(wd, Num(dens, 1))
            IN [k |-> "results", lm_loss |-> r0.lm_loss, w_density |-> wd,
                density |-> Num(dens, 1), density_loss |-> dl,
                loss |-> RatAdd(r0.lm_loss, dl)]

\* XLAPBitTrainer.train_step at step s, with self.w_density = w and
\* self.density_ramp_steps = ramp; dens is model.get_density()
train_step(s, w, ramp, lm, dens) ==
    LET r0 == XLALmTrainer_train_step(lm)
    IN IF ramp = 0 THEN Raise("ZeroDivisionError")
       ELSE LET wd == RatMul(Num(w, 1), RatMin(Num(1, 1), Num(s, ramp)))
                dl == RatMul(wd, Num(dens, 1))
            IN [k |-> "results", lm_loss |-> r0.lm_loss, w_density |-> wd,
                density |-> Num(dens, 1), density_loss |-> dl,
                loss |-> RatAdd(r0.lm_loss, dl)]

InitTrainer ==
    /\ step = 0
    /\ w_density \in (-1)..MaxW
    /\ density_ramp_steps \in 0..MaxRamp
    /\ results = Idle
    /\ MetricsIdle
    /\ BallIdle

\* one iteration of the training loop: train_step at the current step, then the
\* next step; an exception ends the loop
TrainStep ==
    /\ step <= MaxStep
    /\ results.k # "raise"
    /\ \E lm \in 0..MaxTerm, dens \in 0..MaxTerm :
          results' = train_step(step, w_density, density_ramp_steps, lm, dens)
    /\ step' = IF results'.k = "raise" THEN step ELSE step + 1
    /\ UNCHANGED <<w_density, density_ramp_steps, metricVars, ballVars>>

NextTrainer == TrainStep

SpecTrainer == InitTrainer /\ [][NextTrainer]_vars

\* the density penalty weight the ramp prescribes at step s
RampWeight(s) ==
    IF s >= density_ramp_steps THEN Num(w_density, 1)
    ELSE Num(w_density * s, density_ramp_steps)

\* C10 as stated, step by step: for every density_ramp_steps >= 0 the weight of a
\* train_step at step s is defined and is w_density * min(1, s / density_ramp_steps):
\* 0 at step 0, w_density from step density_ramp_steps on, and
\* loss = lm_loss + weight * density
C10_WeightDefinedForEveryRamp ==
    results.k # "none" =>
        /\ results.k = "results"
        /\ RatEq(results.w_density, RampWeight(step - 1))
        /\ (step - 1 = 0 => RatEq(results.w_density, Num(0, 1)))
        /\ RatEq(results.loss,
                 RatAdd(results.lm_loss, RatMul(RampWeight(step - 1), results.density)))

\* C10 amended: for every density_ramp_steps >= 1 the weight of a train_step at step
\* s is w_density * min(1, s / density_ramp_steps) (0 at step 0, linear below
\* density_ramp_steps, w_density from there on), loss = lm_loss + weight * density,
\* and over successive steps the weight does not decrease when w_density >= 0 (does
\* not increase when w_density < 0); with density_ramp_steps = 0 train_step raises
\* ZeroDivisionError
C10_RampFromOne ==
    /\ [](/\ (density_ramp_steps >= 1 /\ step >= 1) =>
                /\ results.k = "results"
                /\ RatEq(results.w_density, RampWeight(step - 1))
                /\ (step - 1 = 0 => RatEq(results.w_density, Num(0, 1)))
                /\ (step - 1 < density_ramp_steps =>
                       results.w_density.n * density_ramp_steps
                           = w_density * (step - 1) * results.w_density.d)
                /\ RatEq(results.loss,
                         RatAdd(results.lm_loss,
                                RatMul(RampWeight(step - 1), results.density)))
          /\ (density_ramp_steps = 0 /\ results.k # "none") =>
                results = Raise("ZeroDivisionError"))
    /\ [][(results.k = "results" /\ results'.k = "results") =>
             IF w_density >= 0
             THEN RatLeq(results.w_density, results'.w_density)
             ELSE RatLeq(results'.w_density, results.w_density)]_vars

C10_Witness ==
    /\ density_ramp_steps = MaxRamp
    /\ w_density = MaxW
    /\ step = MaxRamp + 2
    /\ results.k = "results"
    /\ results.density.n > 0

====
